---- MODULE Spec2Model ----
(***************************************************************************)
(* Model of the condition model of achilles-sdk-api (package api):          *)
(* Condition, ConditionedStatus, SetConditions, GetCondition, Equal.        *)
(***************************************************************************)
EXTENDS Integers, Sequences, FiniteSets, TLC

\* ------------------------------------------------------------------ bounds
\* largest number of conditions passed to one SetConditions call
MaxArgs == 2
\* wall-clock instants metav1.Now() can return are 1..MaxTime (0 is the zero time)
MaxTime == 2
\* metadata.generation, and so ObservedGeneration, runs over 0..MaxGen
MaxGen == 1

\* longest condition list of a status handed to ConditionedStatus.Equal
MaxLen == 2
\* largest number of conditions one concurrent caller passes to SetConditions
MaxConcArgs == 1
\* largest unused capacity of the condition slice before the concurrent calls
MaxSpare == 1

Times == 1..MaxTime

\* ------------------------------------------------------------- data model
TypeReady == "Ready"
TypeSynced == "Synced"
TypeReferencesValid == "ReferencesValid"

ReasonAvailable == "Available"
ReasonCreating == "Creating"
ReasonDeleting == "Deleting"
ReasonReconcileSuccess == "ReconcileSuccess"
ReasonReconcileError == "ReconcileError"

ConditionTrue == "True"
ConditionFalse == "False"
ConditionUnknown == "Unknown"

\* the Condition struct; every field a caller leaves out is its Go zero value
Condition(type, status, gen, time, reason, msg) ==
    [Type |-> type, Status |-> status, ObservedGeneration |-> gen,
     LastTransitionTime |-> time, Reason |-> reason, Message |-> msg]

\* Condition{}
ZeroCondition == Condition("", "", 0, 0, "", "")

Creating(now) == Condition(TypeReady, ConditionFalse, 0, now, ReasonCreating, "")
Deleting(now) == Condition(TypeReady, ConditionFalse, 0, now, ReasonDeleting, "")
Available(now) == Condition(TypeReady, ConditionTrue, 0, now, ReasonAvailable, "")
ReconcileSuccess(now) ==
    Condition(TypeSynced, ConditionTrue, 0, now, ReasonReconcileSuccess, "")
ReconcileError(err, now) ==
    Condition(TypeSynced, ConditionFalse, 0, now, ReasonReconcileError, err)

\* texts of the errors handed to ReconcileError
Errs == {"timeout"}

\* the conditions a reconciler builds at instant now
Constructed(now) ==
    {Creating(now), Deleting(now), Available(now)}
        \cup {ReconcileError(e, now) : e \in Errs}

\* ... and stamps with the generation it observed (Conditioned.GetGeneration)
Inputs(n, g) == {[c EXCEPT !.ObservedGeneration = g] : c \in Constructed(n)}

\* argument lists of one SetConditions call made at instant n for generation g
ArgLists(n, g) == UNION {[1..m -> Inputs(n, g)] : m \in 1..MaxArgs}

\* types GetCondition is asked for
LookupTypes == {TypeReady, TypeSynced, TypeReferencesValid, ""}

\* ------------------------------------------------------------- operations
ConditionEqual_CmpTime(c, other) ==
    /\ c.Type = other.Type
    /\ c.Status = other.Status
    /\ c.Reason = other.Reason
    /\ c.Message = other.Message
    /\ c.ObservedGeneration = other.ObservedGeneration
    /\ c.LastTransitionTime = other.LastTransitionTime

\* Condition.Equal
ConditionEqual(c, other) ==
    /\ c.Type = other.Type
    /\ c.Status = other.Status
    /\ c.Reason = other.Reason
    /\ c.Message = other.Message
    /\ c.ObservedGeneration = other.ObservedGeneration

\* Condition.IsEmpty
IsEmpty(c) ==
    /\ c.Type = ""
    /\ c.Status = ""
    /\ c.Reason = ""
    /\ c.Message = ""

RECURSIVE GetConditionFrom(_, _, _)
GetConditionFrom(conds, ct, i) ==
    IF i > Len(conds) THEN Condition(ct, ConditionUnknown, 0, 0, "", "")
    ELSE IF conds[i].Type = ct THEN conds[i]
    ELSE GetConditionFrom(conds, ct, i + 1)

GetCondition_ZeroWhenAbsent(conds, ct) ==
    IF \E i \in 1..Len(conds) : conds[i].Type = ct
    THEN GetConditionFrom(conds, ct, 1)
    ELSE ZeroCondition

\* ConditionedStatus.GetCondition
GetCondition(conds, ct) == GetConditionFrom(conds, ct, 1)

RECURSIVE ScanExisting_KeepExisting(_, _, _, _)
ScanExisting_KeepExisting(conds, new, i, exists) ==
    IF i > Len(conds) THEN [Conditions |-> conds, exists |-> exists]
    ELSE IF conds[i].Type # new.Type
        THEN ScanExisting_KeepExisting(conds, new, i + 1, exists)
    ELSE ScanExisting_KeepExisting(conds, new, i + 1, TRUE)

RECURSIVE ScanExisting_EqualNotExists(_, _, _, _)
ScanExisting_EqualNotExists(conds, new, i, exists) ==
    IF i > Len(conds) THEN [Conditions |-> conds, exists |-> exists]
    ELSE IF conds[i].Type # new.Type
        THEN ScanExisting_EqualNotExists(conds, new, i + 1, exists)
    ELSE IF ConditionEqual(conds[i], new)
        THEN ScanExisting_EqualNotExists(conds, new, i + 1, exists)
    ELSE ScanExisting_EqualNotExists([conds EXCEPT ![i] = new], new, i + 1, TRUE)

\* the inner loop of SetConditions, from index i on: every existing entry of
\* new's Type is visited; one that is not Equal to new is overwritten in place
RECURSIVE ScanExisting(_, _, _, _)
ScanExisting(conds, new, i, exists) ==
    IF i > Len(conds) THEN [Conditions |-> conds, exists |-> exists]
    ELSE IF conds[i].Type # new.Type
        THEN ScanExisting(conds, new, i + 1, exists)
    ELSE IF ConditionEqual(conds[i], new)
        THEN ScanExisting(conds, new, i + 1, TRUE)
    ELSE ScanExisting([conds EXCEPT ![i] = new], new, i + 1, TRUE)

\* the inner loop with a break after the first entry of new's Type
RECURSIVE ScanExistingBreak(_, _, _, _)
ScanExistingBreak(conds, new, i, exists) ==
    IF i > Len(conds) THEN [Conditions |-> conds, exists |-> exists]
    ELSE IF conds[i].Type # new.Type
        THEN ScanExistingBreak(conds, new, i + 1, exists)
    ELSE IF ConditionEqual(conds[i], new)
        THEN [Conditions |-> conds, exists |-> TRUE]
    ELSE [Conditions |-> [conds EXCEPT ![i] = new], exists |-> TRUE]

SetOne_Prepend(conds, new) ==
    LET r == ScanExisting(conds, new, 1, FALSE)
    IN  IF r.exists THEN r.Conditions ELSE <<new>> \o r.Conditions

\* one iteration of the outer loop of SetConditions
SetOne(conds, new) ==
    LET r == ScanExisting(conds, new, 1, FALSE)
    IN  IF r.exists THEN r.Conditions ELSE Append(r.Conditions, new)

SetOneBreak(conds, new) ==
    LET r == ScanExistingBreak(conds, new, 1, FALSE)
    IN  IF r.exists THEN r.Conditions ELSE Append(r.Conditions, new)

RECURSIVE SetConditionsFrom(_, _, _)
SetConditionsFrom(conds, c, k) ==
    IF k > Len(c) THEN conds
    ELSE SetConditionsFrom(SetOne(conds, c[k]), c, k + 1)

\* ConditionedStatus.SetConditions
SetConditions(conds, c) == SetConditionsFrom(conds, c, 1)

RECURSIVE SetConditionsBreakFrom(_, _, _)
SetConditionsBreakFrom(conds, c, k) ==
    IF k > Len(c) THEN conds
    ELSE SetConditionsBreakFrom(SetOneBreak(conds, c[k]), c, k + 1)

\* SetConditions with the inner scan stopped at the first Type match
SetConditionsBreak(conds, c) == SetConditionsBreakFrom(conds, c, 1)

\* NewConditionedStatus
NewConditionedStatus(c) == SetConditions(<<>>, c)

\* position of a ConditionType in Go's byte-wise string order
TypeRank(t) ==
    CASE t = "" -> 0
      [] t = TypeReady -> 1
      [] t = TypeReferencesValid -> 2
      [] t = TypeSynced -> 3

\* the less function handed to sort.Slice: sc[i].Type < sc[j].Type
TypeLess(x, y) == TypeRank(x.Type) < TypeRank(y.Type)

Swap(seq, i, j) == [seq EXCEPT ![i] = seq[j], ![j] = seq[i]]

\* sort.Slice on a slice of at most 12 elements is an insertion sort:
\* element j sinks while it is less than its left neighbour
RECURSIVE Sink(_, _)
Sink(seq, j) ==
    IF j > 1 /\ TypeLess(seq[j], seq[j - 1])
    THEN Sink(Swap(seq, j, j - 1), j - 1)
    ELSE seq

RECURSIVE SortFrom(_, _)
SortFrom(seq, i) ==
    IF i > Len(seq) THEN seq ELSE SortFrom(Sink(seq, i), i + 1)

SortByType_Unsorted(seq) == seq

\* sort.Slice(sc, func(i, j int) bool { return sc[i].Type < sc[j].Type })
SortByType(seq) == SortFrom(seq, 2)

\* a *ConditionedStatus: nil, or a pointer to a status with these Conditions
NilStatus == [nil |-> TRUE, Conditions |-> <<>>]
Status(conds) == [nil |-> FALSE, Conditions |-> conds]

\* ConditionedStatus.Equal
ConditionedStatusEqual(s, other) ==
    IF s.nil \/ other.nil THEN s.nil /\ other.nil
    ELSE IF Len(other.Conditions) # Len(s.Conditions) THEN FALSE
    ELSE LET sc == SortByType(s.Conditions)
             oc == SortByType(other.Conditions)
         IN  \A i \in 1..Len(sc) : ConditionEqual(sc[i], oc[i])

\* ------------------------------------------------------------------ state
VARIABLES
    Conditions,   \* s.Conditions of the status the reconciler owns
    prev,         \* s.Conditions before the last call
    args,         \* the arguments of the last SetConditions call
    op,           \* the last call
    broken,       \* the same calls applied with SetConditionsBreak
    got,          \* the result of the last GetCondition, its argument in ct
    now,          \* the wall clock read by metav1.Now()
    generation,   \* metadata.generation of the resource, GetGeneration()
    a, b,         \* two *ConditionedStatus handed to Equal
    res,          \* the results of a.Equal(b), b.Equal(a), a.Equal(a)
    hdr,          \* the slice header s.Conditions shared by the goroutines
    heap,         \* the backing arrays; heap[n] has cap(heap[n]) cells
    init0,        \* the condition list before the concurrent calls
    serialized,   \* whether the callers serialize their calls
    cargs,        \* cargs[p]: the arguments of goroutine p's SetConditions call
    pc,           \* pc[p]: where goroutine p is in SetConditions
    loc           \* loc[p]: goroutine p's locals

seqVars == <<Conditions, prev, args, op, broken, got, now, generation>>
eqVars == <<a, b, res>>
concVars == <<hdr, heap, init0, serialized, cargs, pc, loc>>
vars == <<seqVars, eqVars, concVars>>

NoResult == [ct |-> "", c |-> ZeroCondition]
NoCompare == [done |-> FALSE, ab |-> FALSE, ba |-> FALSE, aa |-> FALSE]
NilHeader == [arr |-> 0, len |-> 0]
Procs == {1, 2}
NoLocals == [k |-> 0, i |-> 0, exists |-> FALSE, snap |-> NilHeader, h |-> NilHeader]

\* one reconciler owning one status
SeqInit ==
    /\ Conditions = <<>>
    /\ prev = <<>>
    /\ args = <<>>
    /\ op = "idle"
    /\ broken = <<>>
    /\ got = NoResult
    /\ now = 1
    /\ generation = 0

\* no statuses are being compared
EqIdle ==
    /\ a = NilStatus
    /\ b = NilStatus
    /\ res = NoCompare

\* no goroutines share a status
ConcIdle ==
    /\ hdr = NilHeader
    /\ heap = <<>>
    /\ init0 = <<>>
    /\ serialized = TRUE
    /\ cargs = [p \in Procs |-> <<>>]
    /\ pc = [p \in Procs |-> "done"]
    /\ loc = [p \in Procs |-> NoLocals]

Init == SeqInit /\ EqIdle /\ ConcIdle

\* s = NewConditionedStatus(c...)
New(c) ==
    /\ op = "idle"
    /\ Conditions' = NewConditionedStatus(c)
    /\ broken' = SetConditionsBreak(<<>>, c)
    /\ prev' = <<>>
    /\ args' = c
    /\ op' = "NewConditionedStatus"
    /\ got' = NoResult
    /\ UNCHANGED <<now, generation, eqVars, concVars>>

\* s.SetConditions(c...)
Set(c) ==
    /\ op = "idle"
    /\ Conditions' = SetConditions(Conditions, c)
    /\ broken' = SetConditionsBreak(broken, c)
    /\ prev' = Conditions
    /\ args' = c
    /\ op' = "SetConditions"
    /\ got' = NoResult
    /\ UNCHANGED <<now, generation, eqVars, concVars>>

\* the same SetConditions call once more
Repeat ==
    /\ op \in {"NewConditionedStatus", "SetConditions"}
    /\ Conditions' = SetConditions(Conditions, args)
    /\ broken' = SetConditionsBreak(broken, args)
    /\ prev' = Conditions
    /\ op' = "Repeat"
    /\ got' = NoResult
    /\ UNCHANGED <<args, now, generation, eqVars, concVars>>

\* s.GetCondition(ct)
Get(ct) ==
    /\ op = "idle"
    /\ got' = [ct |-> ct, c |-> GetCondition(Conditions, ct)]
    /\ prev' = Conditions
    /\ args' = <<>>
    /\ op' = "GetCondition"
    /\ UNCHANGED <<Conditions, broken, now, generation, eqVars, concVars>>

\* the caller drops its record of the last call and is ready for the next one
Forget ==
    /\ op # "idle"
    /\ prev' = <<>>
    /\ args' = <<>>
    /\ op' = "idle"
    /\ got' = NoResult
    /\ UNCHANGED <<Conditions, broken, now, generation, eqVars, concVars>>

\* time passes between two calls
Tick ==
    /\ op = "idle"
    /\ now < MaxTime
    /\ now' = now + 1
    /\ UNCHANGED <<Conditions, prev, args, op, broken, got, generation,
                   eqVars, concVars>>

\* the resource's spec is edited between two calls
Edit ==
    /\ op = "idle"
    /\ generation < MaxGen
    /\ generation' = generation + 1
    /\ UNCHANGED <<Conditions, prev, args, op, broken, got, now,
                   eqVars, concVars>>

Next ==
    \/ \E c \in ArgLists(now, generation) : New(c)
    \/ \E c \in ArgLists(now, generation) : Set(c)
    \/ Tick
    \/ Edit
    \/ Repeat
    \/ \E ct \in LookupTypes : Get(ct)
    \/ Forget

Spec == Init /\ [][Next]_vars

\* ------------------------------------------- ConditionedStatus.Equal alone
\* the conditions of the statuses that are compared, stamped at instant n
EqInputsAt(n) == {Creating(n), Available(n), ReconcileSuccess(n)}

EqInputs == UNION {EqInputsAt(n) : n \in Times}

\* every *ConditionedStatus with at most MaxLen conditions out of U, nil
\* included; the Conditions field is exported, so a list may repeat a Type
Pointers(U) ==
    {NilStatus} \cup {Status(l) : l \in UNION {[1..n -> U] : n \in 0..MaxLen}}

\* a's conditions carry the first instant, b's any instant
EqInit ==
    /\ a \in Pointers(EqInputsAt(1))
    /\ b \in Pointers(EqInputs)
    /\ res = NoCompare

\* a.Equal(b), b.Equal(a) and a.Equal(a)
Compare ==
    /\ ~res.done
    /\ res' = [done |-> TRUE,
               ab |-> ConditionedStatusEqual(a, b),
               ba |-> ConditionedStatusEqual(b, a),
               aa |-> ConditionedStatusEqual(a, a)]
    /\ UNCHANGED <<a, b, seqVars, concVars>>

NextEqual == Compare

InitEqual == SeqInit /\ EqInit /\ ConcIdle

SpecEqual == InitEqual /\ [][NextEqual]_vars


\* ------------------------------ SetConditions from two goroutines at once
\* the conditions the goroutines and the initial status draw from
ConcInputs == {Creating(1), Available(2), ReconcileSuccess(1)}

ConcArgLists == UNION {[1..n -> ConcInputs] : n \in 1..MaxConcArgs}

\* the status before the calls: empty or holding one condition
ConcInits == {<<>>} \cup {<<c>> : c \in ConcInputs}

Zeros(n) == [j \in 1..n |-> ZeroCondition]

\* cap(h)
Cap(hp, h) == IF h.arr = 0 THEN 0 ELSE Len(hp[h.arr])

\* the list a slice header denotes
Slice(hp, h) == IF h.arr = 0 THEN <<>> ELSE SubSeq(hp[h.arr], 1, h.len)

\* the capacity append asks for when the slice is full: 1, then doubled
GrowCap(cap) == IF cap = 0 THEN 1 ELSE 2 * cap

AppendSlice_LenKept(hp, h, new) ==
    IF h.len < Cap(hp, h)
    THEN [heap |-> [hp EXCEPT ![h.arr][h.len + 1] = new], hdr |-> h]
    ELSE [heap |-> Append(hp, Slice(hp, h) \o <<new>>
                              \o Zeros(GrowCap(Cap(hp, h)) - h.len - 1)),
          hdr |-> [arr |-> Len(hp) + 1, len |-> h.len]]

\* append(h, new): in place when there is spare capacity, otherwise into a
\* fresh array holding a copy; the result is the new heap and the new header
AppendSlice(hp, h, new) ==
    IF h.len < Cap(hp, h)
    THEN [heap |-> [hp EXCEPT ![h.arr][h.len + 1] = new],
          hdr |-> [arr |-> h.arr, len |-> h.len + 1]]
    ELSE [heap |-> Append(hp, Slice(hp, h) \o <<new>>
                              \o Zeros(GrowCap(Cap(hp, h)) - h.len - 1)),
          hdr |-> [arr |-> Len(hp) + 1, len |-> h.len + 1]]

ConcInit ==
    /\ init0 \in ConcInits
    /\ serialized \in BOOLEAN
    /\ cargs \in [Procs -> ConcArgLists]
    /\ \E spare \in 0..MaxSpare :
        IF init0 = <<>> /\ spare = 0
        THEN hdr = NilHeader /\ heap = <<>>
        ELSE /\ hdr = [arr |-> 1, len |-> Len(init0)]
             /\ heap = <<init0 \o Zeros(spare)>>
    /\ pc = [p \in Procs |-> "idle"]
    /\ loc = [p \in Procs |-> NoLocals]

\* goroutine p enters s.SetConditions(cargs[p]...); serializing callers wait
\* until no other call is running
Call(p) ==
    /\ pc[p] = "idle"
    /\ serialized => \A q \in Procs \ {p} : pc[q] \in {"idle", "done"}
    /\ pc' = [pc EXCEPT ![p] = "outer"]
    /\ loc' = [loc EXCEPT ![p].k = 1]
    /\ UNCHANGED <<hdr, heap, init0, serialized, cargs, seqVars, eqVars>>

\* for _, new := range c { exists := false; ... range s.Conditions
Outer(p) ==
    /\ pc[p] = "outer"
    /\ IF loc[p].k > Len(cargs[p])
       THEN /\ pc' = [pc EXCEPT ![p] = "done"]
            /\ UNCHANGED loc
       ELSE /\ pc' = [pc EXCEPT ![p] = "inner"]
            /\ loc' = [loc EXCEPT ![p].exists = FALSE, ![p].snap = hdr, ![p].i = 1]
    /\ UNCHANGED <<hdr, heap, init0, serialized, cargs, seqVars, eqVars>>

\* one iteration of the inner loop: read element i of the ranged slice and
\* compare it with new; after the last one, go on to the exists test
Inner(p) ==
    /\ pc[p] = "inner"
    /\ LET l == loc[p]
           new == cargs[p][l.k]
       IN  IF l.i > l.snap.len
           THEN IF l.exists
                THEN /\ pc' = [pc EXCEPT ![p] = "outer"]
                     /\ loc' = [loc EXCEPT ![p].k = l.k + 1]
                ELSE /\ pc' = [pc EXCEPT ![p] = "aload"]
                     /\ UNCHANGED loc
           ELSE LET existing == heap[l.snap.arr][l.i]
                IN  IF existing.Type # new.Type
                    THEN /\ loc' = [loc EXCEPT ![p].i = l.i + 1]
                         /\ UNCHANGED pc
                    ELSE IF ConditionEqual(existing, new)
                    THEN /\ loc' = [loc EXCEPT ![p].i = l.i + 1, ![p].exists = TRUE]
                         /\ UNCHANGED pc
                    ELSE /\ pc' = [pc EXCEPT ![p] = "load"]
                         /\ UNCHANGED loc
    /\ UNCHANGED <<hdr, heap, init0, serialized, cargs, seqVars, eqVars>>

\* s.Conditions[i] = new, first half: load the slice header
Load(p) ==
    /\ pc[p] = "load"
    /\ pc' = [pc EXCEPT ![p] = "store"]
    /\ loc' = [loc EXCEPT ![p].h = hdr]
    /\ UNCHANGED <<hdr, heap, init0, serialized, cargs, seqVars, eqVars>>

\* s.Conditions[i] = new, second half: bounds check and store; exists = true
Store(p) ==
    /\ pc[p] = "store"
    /\ LET l == loc[p]
       IN  IF l.i > l.h.len
           THEN /\ pc' = [pc EXCEPT ![p] = "panic"]
                /\ UNCHANGED <<heap, loc>>
           ELSE /\ heap' = [heap EXCEPT ![l.h.arr][l.i] = cargs[p][l.k]]
                /\ loc' = [loc EXCEPT ![p].i = l.i + 1, ![p].exists = TRUE]
                /\ pc' = [pc EXCEPT ![p] = "inner"]
    /\ UNCHANGED <<hdr, init0, serialized, cargs, seqVars, eqVars>>

\* s.Conditions = append(s.Conditions, new), first part: load the header
AppendLoad(p) ==
    /\ pc[p] = "aload"
    /\ pc' = [pc EXCEPT ![p] = "grow"]
    /\ loc' = [loc EXCEPT ![p].h = hdr]
    /\ UNCHANGED <<hdr, heap, init0, serialized, cargs, seqVars, eqVars>>

\* second part: append builds the new slice
AppendGrow(p) ==
    /\ pc[p] = "grow"
    /\ LET r == AppendSlice(heap, loc[p].h, cargs[p][loc[p].k])
       IN  /\ heap' = r.heap
           /\ loc' = [loc EXCEPT ![p].h = r.hdr]
    /\ pc' = [pc EXCEPT ![p] = "astore"]
    /\ UNCHANGED <<hdr, init0, serialized, cargs, seqVars, eqVars>>

\* third part: store the new header; next argument
AppendStore(p) ==
    /\ pc[p] = "astore"
    /\ hdr' = loc[p].h
    /\ loc' = [loc EXCEPT ![p].k = loc[p].k + 1]
    /\ pc' = [pc EXCEPT ![p] = "outer"]
    /\ UNCHANGED <<heap, init0, serialized, cargs, seqVars, eqVars>>

NextConcurrent ==
    \E p \in Procs :
        \/ Call(p)
        \/ Outer(p)
        \/ Inner(p)
        \/ Load(p)
        \/ Store(p)
        \/ AppendLoad(p)
        \/ AppendGrow(p)
        \/ AppendStore(p)

InitConcurrent == SeqInit /\ EqIdle /\ ConcInit

SpecConcurrent == InitConcurrent /\ [][NextConcurrent]_vars

\* ----------------------------------------------------------------- claims
\* the last call was a SetConditions call: prev --SetConditions(args)--> Conditions
Called == op \in {"NewConditionedStatus", "SetConditions", "Repeat"}

TypesOf(seq) == {seq[i].Type : i \in 1..Len(seq)}

IndicesOf(seq, t) == {i \in 1..Len(seq) : seq[i].Type = t}

UniqueTypes(seq) ==
    \A i, j \in 1..Len(seq) : seq[i].Type = seq[j].Type => i = j

Max(S) == CHOOSE x \in S : \A y \in S : y <= x
Min(S) == CHOOSE x \in S : \A y \in S : x <= y

\* the last entry of c with Type t
LastOfType(c, t) == c[Max(IndicesOf(c, t))]

\* the entries of c whose Type is neither in known nor earlier in c
RECURSIVE FirstOccurrences(_, _, _)
FirstOccurrences(c, k, known) ==
    IF k > Len(c) THEN <<>>
    ELSE IF c[k].Type \in known THEN FirstOccurrences(c, k + 1, known)
    ELSE <<c[k].Type>> \o FirstOccurrences(c, k + 1, known \cup {c[k].Type})

\* the condition without its LastTransitionTime
Content(c) == [c EXCEPT !.LastTransitionTime = 0]

\* Type, Status, Reason, Message and ObservedGeneration all match
SameContent(x, y) == Content(x) = Content(y)

Count(seq, x) == Cardinality({i \in 1..Len(seq) : Content(seq[i]) = x})

\* both nil, or both non-nil with the same multiset of conditions when
\* LastTransitionTime is ignored
SameMultiset(s, other) ==
    IF s.nil \/ other.nil THEN s.nil /\ other.nil
    ELSE /\ Len(s.Conditions) = Len(other.Conditions)
         /\ \A x \in {Content(s.Conditions[i]) : i \in 1..Len(s.Conditions)} :
                Count(s.Conditions, x) = Count(other.Conditions, x)

\* C1: a status built from empty by NewConditionedStatus and SetConditions
\* calls holds at most one condition per Type.
C1_OnePerType == UniqueTypes(Conditions)

C1_Witness ==
    /\ Called
    /\ Len(args) = 2
    /\ args[1].Type = args[2].Type
    /\ ~SameContent(args[1], args[2])
    /\ Len(Conditions) = 2

\* every supplied condition is Equal to the stored condition of its Type
AllEqualToStored(conds, c) ==
    \A k \in 1..Len(c) :
        \E i \in 1..Len(conds) :
            conds[i].Type = c[k].Type /\ SameContent(conds[i], c[k])

\* C2: a SetConditions call whose conditions are all Equal to the stored
\* ones is a no-op; the stored LastTransitionTimes stay.
C2_EqualIsNoOp ==
    (Called /\ AllEqualToStored(prev, args)) => Conditions = prev

C2_Witness ==
    /\ Called
    /\ AllEqualToStored(prev, args)
    /\ \E k \in 1..Len(args) :
        GetCondition(prev, args[k].Type).LastTransitionTime
            # args[k].LastTransitionTime
    /\ Conditions = prev

\* C3: after SetConditions(new...) every Type of new is stored exactly once,
\* GetCondition returns that entry, and it is Equal to the last entry of new
\* with that Type.
C3_LastWins ==
    Called =>
        \A t \in TypesOf(args) :
            /\ Cardinality(IndicesOf(Conditions, t)) = 1
            /\ \A i \in IndicesOf(Conditions, t) :
                /\ GetCondition(Conditions, t) = Conditions[i]
                /\ SameContent(Conditions[i], LastOfType(args, t))

C3_Witness ==
    /\ Called
    /\ Len(args) = 2
    /\ args[1].Type = args[2].Type
    /\ ~SameContent(args[1], args[2])
    /\ \E i \in 1..Len(prev) :
        /\ prev[i].Type = args[1].Type
        /\ ~SameContent(prev[i], args[1])
        /\ ~SameContent(prev[i], args[2])
    /\ SameContent(GetCondition(Conditions, args[2].Type), args[2])

C6_Idempotent ==
    op = "Repeat" =>
        /\ ConditionedStatusEqual(Status(Conditions), Status(prev))
        /\ SameMultiset(Status(Conditions), Status(prev))

C6_Witness ==
    /\ op = "Repeat"
    /\ Len(args) = 2
    /\ args[1].Type = args[2].Type
    /\ ~SameContent(args[1], args[2])
    /\ Len(Conditions) = 2

\* C8: a SetConditions call changes the stored LastTransitionTime of a
\* condition only if it changes that condition's Status.
C8_TimeFollowsStatus ==
    Called =>
        \A t \in TypesOf(prev) :
            GetCondition(Conditions, t).LastTransitionTime
                    # GetCondition(prev, t).LastTransitionTime
                => GetCondition(Conditions, t).Status # GetCondition(prev, t).Status

\* C9: SetConditions keeps the prior list as a positional prefix in which
\* only entries of a supplied Type may differ, and appends the Types not yet
\* stored in the order of their first occurrence in the arguments.
C9_PrefixKept ==
    Called =>
        /\ Len(Conditions) >= Len(prev)
        /\ \A i \in 1..Len(prev) :
            /\ Conditions[i].Type = prev[i].Type
            /\ prev[i].Type \notin TypesOf(args) => Conditions[i] = prev[i]
        /\ [i \in 1..(Len(Conditions) - Len(prev)) |->
                Conditions[Len(prev) + i].Type]
            = FirstOccurrences(args, 1, TypesOf(prev))

C9_Witness ==
    /\ Called
    /\ Len(prev) = 1
    /\ Len(args) = 2
    /\ args[1].Type # prev[1].Type
    /\ args[2].Type = prev[1].Type
    /\ ~SameContent(args[2], prev[1])
    /\ Len(Conditions) = 2

\* C10: stopping the inner scan at the first Type match yields, after every
\* call, the same stored list as the full scan.
C10_BreakEquivalent == broken = Conditions

C10_Witness ==
    /\ Called
    /\ \E k \in 1..Len(args), i \in 1..Len(prev) :
        prev[i].Type = args[k].Type /\ ~SameContent(prev[i], args[k])
    /\ \E k \in 1..Len(args), i \in 1..Len(prev) :
        prev[i].Type = args[k].Type /\ SameContent(prev[i], args[k])
    /\ broken = Conditions

\* the lists obtained from seq by reordering it
Reorderings(seq) ==
    {[i \in 1..Len(seq) |-> seq[f[i]]] :
        f \in {g \in [1..Len(seq) -> 1..Len(seq)] :
                \A i, j \in 1..Len(seq) : g[i] = g[j] => i = j}}

\* the lists obtained from seq by changing LastTransitionTimes only
Restampings(seq) ==
    {l \in [1..Len(seq) -> EqInputs] :
        \A i \in 1..Len(seq) : Content(l[i]) = Content(seq[i])}

\* the pointers that differ from s by a reordering or by a restamping
Variants(s) ==
    IF s.nil THEN {s}
    ELSE {Status(l) : l \in Reorderings(s.Conditions) \cup Restampings(s.Conditions)}

WellFormed(s) == s.nil \/ UniqueTypes(s.Conditions)

\* what C4 says of a.Equal(b)
EqualAsSpecified ==
    /\ res.ab = SameMultiset(a, b)
    /\ res.aa
    /\ res.ab = res.ba
    /\ \A x \in Variants(a) : ConditionedStatusEqual(x, b) = res.ab
    /\ \A y \in Variants(b) : ConditionedStatusEqual(a, y) = res.ab

\* C4 as stated: for all pointers a and b, a.Equal(b) iff both are nil or
\* both hold the same multiset of conditions ignoring LastTransitionTime; so
\* Equal is reflexive, symmetric, and unchanged by reordering or restamping.
C4_EqualIsMultisetEquality == res.done => EqualAsSpecified

\* C4 amended: the same, for a and b of which at least one is nil or holds
\* at most one condition per Type.
C4_EqualOnWellFormed ==
    (res.done /\ (WellFormed(a) \/ WellFormed(b))) => EqualAsSpecified

C4_Witness ==
    /\ res.done
    /\ ~a.nil /\ ~b.nil
    /\ WellFormed(a) /\ WellFormed(b)
    /\ Len(a.Conditions) = 2
    /\ Len(b.Conditions) = 2
    /\ b.Conditions[1].Type = a.Conditions[2].Type
    /\ b.Conditions[1].LastTransitionTime # a.Conditions[2].LastTransitionTime
    /\ b.Conditions[2].LastTransitionTime # a.Conditions[1].LastTransitionTime
    /\ res.ab

\* the condition list when both calls have returned
Final == Slice(heap, hdr)

AllDone == \A p \in Procs : pc[p] = "done"

\* what the two calls leave when one runs after the other
SerialOutcomes ==
    {SetConditions(SetConditions(init0, cargs[1]), cargs[2]),
     SetConditions(SetConditions(init0, cargs[2]), cargs[1])}

\* C7: two SetConditions calls on one status that are serialized leave one
\* condition per Type and every supplied Type, as one of the two serial
\* orders does; unsynchronized calls can leave a list neither order leaves.
C7_SerializedIsSafe ==
    (AllDone /\ serialized) =>
        /\ Final \in SerialOutcomes
        /\ UniqueTypes(Final)
        /\ \A p \in Procs : TypesOf(cargs[p]) \subseteq TypesOf(Final)

\* unsynchronized calls have left two conditions of one Type
C7_Witness ==
    /\ AllDone
    /\ ~serialized
    /\ Final \notin SerialOutcomes
    /\ ~UniqueTypes(Final)

\* unsynchronized calls have lost a supplied condition
C7_Lost ==
    /\ AllDone
    /\ ~serialized
    /\ Final \notin SerialOutcomes
    /\ \E p \in Procs : ~(TypesOf(cargs[p]) \subseteq TypesOf(Final))

====
